---- MODULE Spec2Model ----
(***************************************************************************)
(* A model of the CSV query tool: query_csv_data (app/tools.py, duplicated *)
(* in app/__main__.py) and get_csv_schema (app/utils.py).                  *)
(*                                                                         *)
(* The table read by pd.read_csv has the two columns of the running        *)
(* example, "Platform" (strings) and "Earnings" (numbers); a cell may be   *)
(* missing (NaN).  A value is a record [k, v, d]: k is its kind, v its     *)
(* payload and d a denominator (1 except for the results of mean and std). *)
(* A string is represented by its rank v in the lexicographic order of the *)
(* vocabulary, so that comparison of strings is comparison of ranks.       *)
(***************************************************************************)
EXTENDS Integers, Sequences, FiniteSets, TLC

\* ------------------------------------------------------------------ bounds
MaxRows == 2
MaxVal == 2

\* ------------------------------------------------------------------ values
Null == [k |-> "null", v |-> 0, d |-> 1]
Num(n) == [k |-> "num", v |-> n, d |-> 1]
Str(n) == [k |-> "str", v |-> n, d |-> 1]

Nums == {Num(n) : n \in 1..MaxVal}
Strs == {Str(n) : n \in 1..MaxVal}
Scalars == {Null} \cup Nums \cup Strs

\* ------------------------------------------------------------------ table
TableColumns == <<"Platform", "Earnings">>

TableRows == [Platform : {Null} \cup Strs, Earnings : {Null} \cup Nums]

\* The CSV files with at least one data row (a file with a header line only
\* gives columns without a numeric dtype, which is not modelled).
Tables == UNION {[1..n -> TableRows] : n \in 1..MaxRows}

SeqToSet(s) == {s[i] : i \in 1..Len(s)}

\* A data frame: its column labels in order, and its rows in order.
read_csv(t) == [columns |-> TableColumns, rows |-> t]

\* ------------------------------------------------ element-wise comparisons
\* Series == operand: a missing cell equals nothing, and neither does a
\* missing operand; values of different kinds are never equal.
SeriesEqCoerced(x, operand) ==
  x.k # "null" /\ operand.k # "null" /\ x.v = operand.v

SeriesEq(x, operand) == x.k # "null" /\ operand.k # "null" /\ x = operand

SeriesNe(x, operand) == ~SeriesEq(x, operand)

\* Ordering comparisons: a missing cell compares False with everything.
SeriesLt(x, operand) == x.k # "null" /\ x.k = operand.k /\ x.v < operand.v

SeriesLe(x, operand) == x.k # "null" /\ x.k = operand.k /\ x.v <= operand.v

SeriesGt(x, operand) == x.k # "null" /\ x.k = operand.k /\ x.v > operand.v

SeriesGe(x, operand) == x.k # "null" /\ x.k = operand.k /\ x.v >= operand.v

\* Series.isin(values), for a list of non-missing values.
SeriesIsin(x, values) == x.k # "null" /\ \E i \in 1..Len(values) : values[i] = x

\* df[mask]: the rows whose mask is True, in their order.
MaskRows(rows, mask) ==
  LET kept == SelectSeq([i \in 1..Len(rows) |-> i], LAMBDA i : mask[i])
  IN [j \in 1..Len(kept) |-> rows[kept[j]]]

BooleanIndex(df, mask) == [df EXCEPT !.rows = MaskRows(df.rows, mask)]

\* ------------------------------------------------------------------ where
SupportedOperators ==
  {"$lt", "$lte", "$gt", "$gte", "$ne", "$eq", "$in", "$nin"}

\* One operator of an operator mapping: [operator, operand, operands].
OperatorMask(df, col, e) ==
  [i \in 1..Len(df.rows) |->
     LET x == df.rows[i][col] IN
     CASE e.operator = "$lt" -> SeriesLt(x, e.operand)
       [] e.operator = "$lte" -> SeriesLe(x, e.operand)
       [] e.operator = "$gt" -> SeriesGt(x, e.operand)
       [] e.operator = "$gte" -> SeriesGe(x, e.operand)
       [] e.operator = "$ne" -> SeriesNe(x, e.operand)
       [] e.operator = "$eq" -> SeriesEq(x, e.operand)
       [] e.operator = "$in" -> SeriesIsin(x, e.operands)
       [] e.operator = "$nin" -> ~SeriesIsin(x, e.operands)
       [] OTHER -> TRUE]

\* Mutants of the loop below: only the last operator of the mapping filters;
\* an unsupported operator ends the loop.
ApplyOperatorsLastWins(st, col, ops) ==
  IF ops = <<>> THEN st
  ELSE [st EXCEPT !.df = BooleanIndex(st.df, OperatorMask(st.df, col, ops[Len(ops)]))]

RECURSIVE ApplyOperatorsBreak(_, _, _)
ApplyOperatorsBreak(st, col, ops) ==
  IF ops = <<>> THEN st
  ELSE LET e == ops[1] IN
       IF e.operator \in SupportedOperators
       THEN ApplyOperatorsBreak(
              [st EXCEPT !.df = BooleanIndex(st.df, OperatorMask(st.df, col, e))],
              col, Tail(ops))
       ELSE [st EXCEPT !.warnings = Append(st.warnings, <<e.operator, col>>)]

\* The loop over value.items(): the state is the frame and the warnings
\* printed so far.
RECURSIVE ApplyOperators(_, _, _)
ApplyOperators(st, col, ops) ==
  IF ops = <<>> THEN st
  ELSE LET e == ops[1] IN
       ApplyOperators(
         IF e.operator \in SupportedOperators
         THEN [st EXCEPT !.df = BooleanIndex(st.df, OperatorMask(st.df, col, e))]
         ELSE [st EXCEPT !.warnings = Append(st.warnings, <<e.operator, col>>)],
         col, Tail(ops))

\* One entry col -> value of where: value is [shape, value, values, ops].
ApplyCondition(st, col, cond) ==
  IF col \notin SeqToSet(st.df.columns) THEN st
  ELSE IF cond.shape = "dict" THEN ApplyOperators(st, col, cond.ops)
  ELSE IF cond.shape = "list"
  THEN [st EXCEPT !.df = BooleanIndex(st.df,
         [i \in 1..Len(st.df.rows) |-> SeriesIsin(st.df.rows[i][col], cond.values)])]
  ELSE [st EXCEPT !.df = BooleanIndex(st.df,
         [i \in 1..Len(st.df.rows) |-> SeriesEq(st.df.rows[i][col], cond.value)])]

\* The loop over where.items().
RECURSIVE ApplyWhere(_, _)
ApplyWhere(st, where) ==
  IF where = <<>> THEN st
  ELSE ApplyWhere(ApplyCondition(st, where[1].col, where[1].cond), Tail(where))

\* ----------------------------------------------------------- aggregation
SupportedFunctions == {"mean", "count", "sum", "min", "max", "std"}

\* x < y for two non-missing values of one kind (fractions by cross product).
ValLt(x, y) == x.v * y.d < y.v * x.d

\* Series.dropna()
DropNa(xs) == SelectSeq(xs, LAMBDA x : x.k # "null")

\* The sum of the payloads of xs[lo..hi], by halves.
RECURSIVE SumRange(_, _, _)
SumRange(xs, lo, hi) ==
  IF lo > hi THEN 0
  ELSE IF lo = hi THEN xs[lo].v
  ELSE LET mid == (lo + hi) \div 2
       IN SumRange(xs, lo, mid) + SumRange(xs, mid + 1, hi)

SumV(xs) == SumRange(xs, 1, Len(xs))

SumSq(xs) == SumV([i \in 1..Len(xs) |-> [xs[i] EXCEPT !.v = @ * @]])

MinV(xs) == CHOOSE x \in SeqToSet(xs) : \A y \in SeqToSet(xs) : ~ValLt(y, x)

MaxV(xs) == CHOOSE x \in SeqToSet(xs) : \A y \in SeqToSet(xs) : ~ValLt(x, y)

\* Series.mean/count/sum/min/max/std of a numeric column: missing cells are
\* skipped; mean is the fraction sum/count, std (ddof = 1) the square root of
\* the fraction v/d, and both are NaN when there are too few values.
Aggregate(func, column) ==
  LET xs == DropNa(column)
      n == Len(xs)
  IN CASE func = "mean" ->
            IF n = 0 THEN Null ELSE [k |-> "num", v |-> SumV(xs), d |-> n]
       [] func = "count" -> Num(n)
       [] func = "sum" -> Num(SumV(xs))
       [] func = "min" -> IF n = 0 THEN Null ELSE MinV(xs)
       [] func = "max" -> IF n = 0 THEN Null ELSE MaxV(xs)
       [] func = "std" ->
            IF n < 2 THEN Null
            ELSE [k |-> "sqrt", v |-> n * SumSq(xs) - SumV(xs) * SumV(xs),
                  d |-> n * (n - 1)]

\* f"{col}_{func}"
FieldName(col, func) == col \o "_" \o func

\* The two loops over agg.items() and funcs: the keys of agg_results in
\* insertion order, each with the column and function that compute it.  An
\* unknown column and an unsupported function add no key; a key assigned
\* twice keeps its first position.
RECURSIVE FuncFields(_, _, _)
FuncFields(acc, col, funcs) ==
  IF funcs = <<>> THEN acc
  ELSE LET f == [name |-> FieldName(col, funcs[1]), col |-> col, func |-> funcs[1]]
       IN FuncFields(
            IF funcs[1] \in SupportedFunctions /\ f \notin SeqToSet(acc)
            THEN Append(acc, f) ELSE acc,
            col, Tail(funcs))

RECURSIVE AggFields(_, _, _)
AggFields(acc, columns, agg) ==
  IF agg = <<>> THEN acc
  ELSE AggFields(
         IF agg[1].col \in SeqToSet(columns)
         THEN FuncFields(acc, agg[1].col, agg[1].funcs) ELSE acc,
         columns, Tail(agg))

ColumnOf(rows, col) == [i \in 1..Len(rows) |-> rows[i][col]]

\* ------------------------------------------------------------- group by
KeyOf(row, group_by) == [j \in 1..Len(group_by) |-> row[group_by[j]]]

HasNullKey(key) == \E j \in 1..Len(key) : key[j].k = "null"

\* key1 < key2, lexicographically.
KeyLt(a, b) ==
  \E j \in 1..Len(a) :
    /\ ValLt(a[j], b[j])
    /\ \A i \in 1..(j - 1) : a[i] = b[i]

RECURSIVE SortKeys(_)
SortKeys(S) ==
  IF S = {} THEN <<>>
  ELSE LET m == CHOOSE a \in S : \A b \in S \ {a} : KeyLt(a, b)
       IN <<m>> \o SortKeys(S \ {m})

\* df.groupby(group_by): the group keys, sorted; a row with a missing value
\* in a key column belongs to no group (dropna=True).
GroupKeys(df, group_by) ==
  SortKeys({KeyOf(df.rows[i], group_by) : i \in
              {i \in 1..Len(df.rows) : ~HasNullKey(KeyOf(df.rows[i], group_by))}})

GroupRows(df, group_by, key) ==
  MaskRows(df.rows, [i \in 1..Len(df.rows) |-> KeyOf(df.rows[i], group_by) = key])

\* pd.DataFrame(agg_results).reset_index() of the grouped branch.  With no
\* key in agg_results the frame is empty and reset_index adds the column
\* "index" of its empty index.
GroupedFrame(df, group_by, agg) ==
  LET fields == AggFields(<<>>, df.columns, agg)
      keys == GroupKeys(df, group_by)
  IN IF fields = <<>> THEN [columns |-> <<"index">>, rows |-> <<>>]
     ELSE [columns |-> group_by \o [j \in 1..Len(fields) |-> fields[j].name],
           rows |-> [g \in 1..Len(keys) |->
             [c \in SeqToSet(group_by) \cup {fields[j].name : j \in 1..Len(fields)} |->
                IF \E j \in 1..Len(fields) : fields[j].name = c
                THEN LET f == fields[CHOOSE j \in 1..Len(fields) : fields[j].name = c]
                     IN Aggregate(f.func, ColumnOf(GroupRows(df, group_by, keys[g]), f.col))
                ELSE keys[g][CHOOSE j \in 1..Len(group_by) : group_by[j] = c]]]]

\* pd.DataFrame(agg_results) of the branch without grouping: one row, or no
\* row and no column when agg_results has no key.
SimpleFrame(df, agg) ==
  LET fields == AggFields(<<>>, df.columns, agg)
  IN IF fields = <<>> THEN [columns |-> <<>>, rows |-> <<>>]
     ELSE [columns |-> [j \in 1..Len(fields) |-> fields[j].name],
           rows |-> <<[c \in {fields[j].name : j \in 1..Len(fields)} |->
             LET f == fields[CHOOSE j \in 1..Len(fields) : fields[j].name = c]
             IN Aggregate(f.func, ColumnOf(df.rows, f.col))]>>]

\* Mutant of the projection below: the requested columns in table order.
ProjectTableOrder(df, select) ==
  LET cols == SelectSeq(df.columns, LAMBDA c : c \in SeqToSet(select))
  IN [columns |-> cols,
      rows |-> [i \in 1..Len(df.rows) |-> [c \in SeqToSet(cols) |-> df.rows[i][c]]]]

\* result_df[select]
Project(df, select) ==
  [columns |-> select,
   rows |-> [i \in 1..Len(df.rows) |-> [c \in SeqToSet(select) |-> df.rows[i][c]]]]

\* ------------------------------------------------------------------ sort
RowOrders(n) ==
  {p \in [1..n -> 1..n] : \A i, j \in 1..n : p[i] = p[j] => i = j}

\* Mutant of the sort below: sort_desc is ignored.
SortOrdersAscending(rows, by, ascending) ==
  {p \in RowOrders(Len(rows)) :
     \A i, j \in 1..Len(rows) :
       i < j =>
         LET x == rows[p[i]][by]
             y == rows[p[j]][by]
         IN /\ x.k = "null" => y.k = "null"
            /\ (x.k # "null" /\ y.k # "null") => ~ValLt(y, x)}

\* The row orders sort_values(by, ascending) may produce: missing values
\* last (na_position="last"), the others in order; the default sort is not
\* stable, so rows with equal keys come in any order.
SortOrders(rows, by, ascending) ==
  {p \in RowOrders(Len(rows)) :
     \A i, j \in 1..Len(rows) :
       i < j =>
         LET x == rows[p[i]][by]
             y == rows[p[j]][by]
         IN /\ x.k = "null" => y.k = "null"
            /\ (x.k # "null" /\ y.k # "null") =>
                 IF ascending THEN ~ValLt(y, x) ELSE ~ValLt(x, y)}

SortValues(df, by, ascending) ==
  {[df EXCEPT !.rows = [i \in 1..Len(df.rows) |-> df.rows[p[i]]]] :
     p \in SortOrders(df.rows, by, ascending)}

\* result_df.to_dict(orient="records"): each row as the sequence of its
\* (column, value) items in column order.
ToDictRecords(df) ==
  [i \in 1..Len(df.rows) |->
     [j \in 1..Len(df.columns) |-> <<df.columns[j], df.rows[i][df.columns[j]]>>]]

\* -------------------------------------------------------- query_csv_data
\* A query: select, group_by (sequences of column names), where (a sequence
\* of [col, cond]), agg (a sequence of [col, funcs]), sort_by (a column name)
\* and sort_desc.  An absent field is the empty sequence or the empty string:
\* the code tests every field by its truth value only, and None, [] , {} and
\* "" are all false.
\*
\* The outcomes of one call: the exception raised ("" for none), the path
\* taken, the frame after the where stage (filtered), the frame before the
\* sort stage (staged), the list returned (result) and the warnings printed.
query_csv_data(t, q) ==
  LET st == ApplyWhere([df |-> read_csv(t), warnings |-> <<>>], q.where)
      df == st.df
      out(path, raised, staged, result) ==
        [path |-> path, raised |-> raised, filtered |-> df, staged |-> staged,
         result |-> result, warnings |-> st.warnings]
      sorted(path, result_df) ==
        IF q.sort_by # "" /\ q.sort_by \in SeqToSet(result_df.columns)
        THEN {out(path, "", result_df, ToDictRecords(s)) :
                s \in SortValues(result_df, q.sort_by, ~q.sort_desc)}
        ELSE {out(path, "", result_df, ToDictRecords(result_df))}
  IN IF q.group_by # <<>> /\ q.agg # <<>>
     THEN IF \E j \in 1..Len(q.group_by) : q.group_by[j] \notin SeqToSet(df.columns)
          THEN {out("grouped", "KeyError", df, <<>>)}
          ELSE sorted("grouped", GroupedFrame(df, q.group_by, q.agg))
     ELSE IF q.agg # <<>>
     THEN sorted("simple", SimpleFrame(df, q.agg))
     ELSE IF q.select # <<>>
     THEN IF \E j \in 1..Len(q.select) : q.select[j] \notin SeqToSet(df.columns)
          THEN {out("missing", "", df, <<>>)}
          ELSE sorted("select", Project(df, q.select))
     ELSE sorted("all", df)

\* ----------------------------------------------------------------- inputs
NoQuery ==
  [select |-> <<>>, where |-> <<>>, group_by |-> <<>>, agg |-> <<>>,
   sort_by |-> "", sort_desc |-> FALSE]

ScalarCond(v) == [shape |-> "scalar", value |-> v, values |-> <<>>, ops |-> <<>>]
ListCond(vs) == [shape |-> "list", value |-> Null, values |-> vs, ops |-> <<>>]
DictCond(ops) == [shape |-> "dict", value |-> Null, values |-> <<>>, ops |-> ops]

Op(operator, operand) ==
  [operator |-> operator, operand |-> operand, operands |-> <<>>]
OpList(operator, operands) ==
  [operator |-> operator, operand |-> Null, operands |-> operands]

\* -------------------------------------------------------- get_csv_schema
UniqueLimit == 50
SampleSize == 10

\* The dtype read_csv infers for a column of the table.
Dtype(column) ==
  IF \E i \in 1..Len(column) : column[i].k = "str" THEN "object"
  ELSE IF \E i \in 1..Len(column) : column[i].k = "null" THEN "float64"
  ELSE "int64"

\* Series.unique(): the values in order of first appearance.
Unique(xs) ==
  LET first == SelectSeq([i \in 1..Len(xs) |-> i],
                         LAMBDA i : \A h \in 1..(i - 1) : xs[h] # xs[i])
  IN [j \in 1..Len(first) |-> xs[first[j]]]

\* Mutant of the branch below: the limit is exclusive.
StringInfoExclusive(unique_vals) ==
  IF Len(unique_vals) < UniqueLimit
  THEN <<<<"unique_values", unique_vals>>>>
  ELSE <<<<"unique_count", Len(unique_vals)>>,
         <<"sample_values", SubSeq(unique_vals, 1, SampleSize)>>>>

\* The keys a string column adds to col_info.
StringInfo(unique_vals) ==
  IF Len(unique_vals) <= UniqueLimit
  THEN <<<<"unique_values", unique_vals>>>>
  ELSE <<<<"unique_count", Len(unique_vals)>>,
         <<"sample_values", SubSeq(unique_vals, 1, SampleSize)>>>>

\* round(mean, 2), in hundredths.  A mean that lies halfway between two
\* hundredths is rounded on its binary floating-point value, which may fall
\* on either side: both results are possible.
RoundedMeans(column) ==
  LET xs == DropNa(column)
      n == Len(xs)
      q == (100 * SumV(xs)) \div n
      r == (100 * SumV(xs)) % n
  IN IF n = 0 THEN {Null}
     ELSE IF 2 * r < n THEN {[k |-> "num", v |-> q, d |-> 100]}
     ELSE IF 2 * r > n THEN {[k |-> "num", v |-> q + 1, d |-> 100]}
     ELSE {[k |-> "num", v |-> q, d |-> 100], [k |-> "num", v |-> q + 1, d |-> 100]}

\* The col_info dictionaries a column may get, as sequences of items.
ColInfos(column) ==
  LET type == <<<<"type", Dtype(column)>>>>
  IN IF Dtype(column) = "object"
     THEN {type \o StringInfo(Unique(DropNa(column)))}
     ELSE {type \o <<<<"min", Aggregate("min", column)>>,
                      <<"max", Aggregate("max", column)>>,
                      <<"mean", m>>>> : m \in RoundedMeans(column)}

\* The loop over df.columns: the schemas, as sequences of items.
RECURSIVE Schemas(_, _)
Schemas(df, j) ==
  IF j = 0 THEN {<<>>}
  ELSE {Append(sc, <<df.columns[j], info>>) :
          sc \in Schemas(df, j - 1),
          info \in ColInfos(ColumnOf(df.rows, df.columns[j]))}

get_csv_schema(t) == Schemas(read_csv(t), Len(TableColumns))

\* ------------------------------------------------------------------ state
VARIABLES
  table,      \* the rows of the CSV file
  query,      \* the arguments of the call
  pc,         \* "ready" before the call, "done" after it
  path,       \* the branch the call took
  raised,     \* the exception that escaped the call ("" for none)
  filtered,   \* df after the where stage
  staged,     \* result_df before the sort stage
  result,     \* the list returned
  warnings,   \* the warnings printed
  schema,     \* the schema returned by get_csv_schema
  max_retries,  \* wait_for_ollama_connection: its arguments,
  delay,
  attempt,      \* its loop variable,
  wait_pc,      \* its position: "idle", "loop", "except" or "returned",
  attempts,     \* the outcome of each ollama_list() call so far (TRUE: success),
  slept,        \* the argument of each time.sleep call so far,
  returned,     \* and the value it returned ("none" before it returns)
  main_pc,      \* main: its position ("idle", "start", "chat", "calls",
                \* "done", or "raised" when an exception left it),
  messages,     \* its message list,
  tool_calls,   \* response.message.tool_calls of the first response,
  next_call,    \* the index of the tool call the loop handles next,
  chats,        \* the chat requests sent so far,
  executed      \* and the arguments of each query_csv_data call so far

waitVars == <<max_retries, delay, attempt, wait_pc, attempts, slept, returned>>

mainVars == <<main_pc, messages, tool_calls, next_call, chats, executed>>

vars ==
  <<table, query, pc, path, raised, filtered, staged, result, warnings, schema,
    waitVars, mainVars>>

\* main is not running.
MainIdle ==
  /\ main_pc = "idle"
  /\ messages = <<>>
  /\ tool_calls = <<>>
  /\ next_call = 0
  /\ chats = <<>>
  /\ executed = <<>>

\* wait_for_ollama_connection is not running.
WaitIdle ==
  /\ max_retries = 0
  /\ delay = 0
  /\ attempt = 0
  /\ wait_pc = "idle"
  /\ attempts = <<>>
  /\ slept = <<>>
  /\ returned = "none"

Ready(tables, queries) ==
  /\ table \in tables
  /\ query \in queries
  /\ pc = "ready"
  /\ path = ""
  /\ raised = ""
  /\ filtered = read_csv(<<>>)
  /\ staged = read_csv(<<>>)
  /\ result = <<>>
  /\ warnings = <<>>
  /\ schema = <<>>
  /\ WaitIdle
  /\ MainIdle

\* One call of query_csv_data.
QueryCsvData ==
  /\ pc = "ready"
  /\ \E o \in query_csv_data(table, query) :
       /\ path' = o.path
       /\ raised' = o.raised
       /\ filtered' = o.filtered
       /\ staged' = o.staged
       /\ result' = o.result
       /\ warnings' = o.warnings
  /\ pc' = "done"
  /\ UNCHANGED <<table, query, schema, waitVars, mainVars>>

Next == QueryCsvData

\* ------------------------------------------------------ reading a result
Keys(row) == [j \in 1..Len(row) |-> row[j][1]]

HasKey(row, key) == \E j \in 1..Len(row) : row[j][1] = key

Get(row, key) == row[CHOOSE j \in 1..Len(row) : row[j][1] = key][2]

\* cell == v as Python evaluates it on a returned value: a missing cell is
\* NaN, which equals nothing.
CellEquals(cell, v) == cell.k # "null" /\ cell = v

\* ------------------------------------------------------------------- C1
\* where = {col: v}, col a column of the table, v a scalar, no other field.
EqQueries ==
  {[NoQuery EXCEPT !.where = <<[col |-> c, cond |-> ScalarCond(v)]>>] :
     c \in SeqToSet(TableColumns), v \in Scalars}

InitEq == Ready(Tables, EqQueries)

SpecEq == InitEq /\ [][Next]_vars

\* C1: after query_csv_data(where={col: v}) every returned row has v in col,
\* and as many rows are returned as the table has rows with v in col.
C1_ScalarEquality ==
  pc = "done" =>
    LET col == query.where[1].col
        v == query.where[1].cond.value
    IN /\ raised = ""
       /\ \A i \in 1..Len(result) : CellEquals(Get(result[i], col), v)
       /\ Len(result) =
            Cardinality({i \in 1..Len(table) : CellEquals(table[i][col], v)})

\* A call that kept some rows and dropped others.
C1_Witness ==
  /\ pc = "done"
  /\ Len(query.where) = 1
  /\ query.where[1].cond.shape = "scalar"
  /\ Len(result) >= 1
  /\ Len(result) < Len(table)

\* --------------------------------------------------------------- C2, C9
\* Operator mappings.  Ordering operators are applied to the numeric column
\* with numeric operands only: pandas raises TypeError on an ordering
\* comparison of a number with a string, which is input of the wrong type.
OrderingOperators == {"$lt", "$lte", "$gt", "$gte"}

EarningsOps ==
  {Op(o, n) : o \in OrderingOperators \cup {"$ne", "$eq"}, n \in Nums}
    \cup {OpList(o, l) : o \in {"$in", "$nin"},
                         l \in {<<Num(1)>>, <<Num(1), Num(MaxVal)>>}}
    \cup {Op("$regex", Num(1))}

PlatformOps ==
  {Op(o, n) : o \in {"$ne", "$eq"}, n \in {Str(1)}}
    \cup {OpList(o, l) : o \in {"$in", "$nin"}, l \in {<<Str(1), Str(MaxVal)>>}}
    \cup {Op("$between", Str(1))}

\* The mappings of at most two operators (a mapping has each key once).
OpMappings(ops) ==
  {<<>>} \cup {<<e>> : e \in ops}
    \cup {m \in ops \X ops : m[1].operator # m[2].operator}

EarningsConds ==
  {ScalarCond(v) : v \in Scalars}
    \cup {ListCond(l) : l \in {<<>>, <<Num(1)>>, <<Num(MaxVal), Str(1)>>}}
    \cup {DictCond(m) : m \in OpMappings(EarningsOps)}

PlatformConds ==
  {ScalarCond(v) : v \in {Null, Str(1), Num(1)}}
    \cup {ListCond(l) : l \in {<<Str(1)>>}}
    \cup {DictCond(m) : m \in OpMappings(PlatformOps)}

UnknownColumnConds == {ScalarCond(Num(1)), DictCond(<<Op("$regex", Num(1))>>)}

\* The simple conditions, used in the mappings with two entries.
Simple(conds) ==
  {c \in conds : c.shape = "scalar" \/ (c.shape = "dict" /\ Len(c.ops) = 1)}

Entries(col, conds) == {[col |-> col, cond |-> c] : c \in conds}

WhereMappings ==
  LET e == Entries("Earnings", EarningsConds)
      p == Entries("Platform", PlatformConds)
      u == Entries("Nope", UnknownColumnConds)
      se == Entries("Earnings", Simple(EarningsConds))
      sp == Entries("Platform", Simple(PlatformConds))
  IN {<<x>> : x \in e \cup p \cup u}
       \cup {<<x, y>> : x \in se, y \in sp \cup u}
       \cup {<<x, y>> : x \in sp \cup u, y \in se}

WhereQueries == {[NoQuery EXCEPT !.where = w] : w \in WhereMappings}

InitWhere == Ready(Tables, WhereQueries)

SpecWhere == InitWhere /\ [][Next]_vars

\* What a supported operator asks of a cell, read off the operator's name.
Holds(x, e) ==
  LET same == x.k # "null" /\ x.k = e.operand.k
      member == x.k # "null" /\ x \in SeqToSet(e.operands)
  IN CASE e.operator = "$lt" -> same /\ x.v < e.operand.v
       [] e.operator = "$lte" -> same /\ x.v <= e.operand.v
       [] e.operator = "$gt" -> same /\ x.v > e.operand.v
       [] e.operator = "$gte" -> same /\ x.v >= e.operand.v
       [] e.operator = "$eq" -> CellEquals(x, e.operand)
       [] e.operator = "$ne" -> ~CellEquals(x, e.operand)
       [] e.operator = "$in" -> member
       [] e.operator = "$nin" -> ~member

\* The row satisfies the entry col -> cond.
SatisfiesEntry(row, col, cond) ==
  CASE cond.shape = "scalar" -> CellEquals(row[col], cond.value)
    [] cond.shape = "list" ->
         row[col].k # "null" /\ row[col] \in SeqToSet(cond.values)
    [] cond.shape = "dict" ->
         \A j \in 1..Len(cond.ops) : Holds(row[col], cond.ops[j])

\* The where mapping names columns of the table and supported operators only.
KnownOnly(where) ==
  \A i \in 1..Len(where) :
    /\ where[i].col \in SeqToSet(TableColumns)
    /\ \A j \in 1..Len(where[i].cond.ops) :
         where[i].cond.ops[j].operator \in SupportedOperators

RECURSIVE IsSubsequence(_, _)
IsSubsequence(s, t) ==
  IF s = <<>> THEN TRUE
  ELSE IF t = <<>> THEN FALSE
  ELSE IF s[1] = t[1] THEN IsSubsequence(Tail(s), Tail(t))
  ELSE IsSubsequence(s, Tail(t))

\* C2: the rows that leave the where stage are exactly the rows of the table
\* that satisfy every entry and every operator of where, in table order.
C2_WhereIsConjunction ==
  (pc = "done" /\ KnownOnly(query.where)) =>
    /\ raised = ""
    /\ filtered.rows =
         SelectSeq(table, LAMBDA r :
           \A i \in 1..Len(query.where) :
             SatisfiesEntry(r, query.where[i].col, query.where[i].cond))
    /\ IsSubsequence(filtered.rows, table)

\* Two entries, or two operators under one column, each of which alone keeps
\* a row that the other drops.
C2_Witness ==
  /\ pc = "done"
  /\ KnownOnly(query.where)
  /\ \/ Len(query.where) = 2
     \/ Len(query.where[1].cond.ops) = 2
  /\ Len(table) = 2
  /\ filtered.rows = <<>>
  /\ \A i \in 1..Len(query.where) :
       \E k \in 1..Len(table) :
         SatisfiesEntry(table[k], query.where[i].col, query.where[i].cond)
  /\ \A i \in 1..Len(query.where) :
       \A j \in 1..Len(query.where[i].cond.ops) :
         \E k \in 1..Len(table) :
           Holds(table[k][query.where[i].col], query.where[i].cond.ops[j])

\* The where mapping without its unsupported operators.
StripUnsupported(where) ==
  [i \in 1..Len(where) |->
     [where[i] EXCEPT !.cond.ops =
        SelectSeq(@, LAMBDA e : e.operator \in SupportedOperators)]]

\* The unsupported operators under columns of the table, in order, each with
\* its column.
RECURSIVE UnsupportedOf(_)
UnsupportedOf(where) ==
  IF where = <<>> THEN <<>>
  ELSE LET bad == SelectSeq(where[1].cond.ops,
                            LAMBDA e : e.operator \notin SupportedOperators)
       IN (IF where[1].col \in SeqToSet(TableColumns)
           THEN [j \in 1..Len(bad) |-> <<bad[j].operator, where[1].col>>]
           ELSE <<>>)
            \o UnsupportedOf(Tail(where))

SmallWheres ==
  {<<>>,
   <<[col |-> "Earnings", cond |-> DictCond(<<Op("$gte", Num(MaxVal))>>)]>>,
   <<[col |-> "Platform", cond |-> ScalarCond(Str(1))]>>,
   <<[col |-> "Nope", cond |-> ScalarCond(Num(1))]>>}

ColumnNames == {"Platform", "Earnings", "Nope"}

\* The lists of one or two different column names.
ColumnLists ==
  {<<c>> : c \in ColumnNames} \cup {l \in ColumnNames \X ColumnNames : l[1] # l[2]}

\* Queries without agg: select is a list of different names.
SelectQueries ==
  {[NoQuery EXCEPT !.select = s, !.where = w, !.group_by = g,
                   !.sort_by = sb, !.sort_desc = sd] :
     s \in ColumnLists, w \in SmallWheres, g \in {<<>>, <<"Platform">>, <<"Nope">>},
     sb \in {""} \cup ColumnNames, sd \in BOOLEAN}

InitSelect == Ready(Tables, SelectQueries)

SpecSelect == InitSelect /\ [][Next]_vars

Missing(select) ==
  \E j \in 1..Len(select) : select[j] \notin SeqToSet(TableColumns)

\* C3: without agg, a select naming a column the table lacks returns the
\* empty list; otherwise one row is returned per filtered row, its keys are
\* the requested columns in the requested order, and its values are those of
\* a filtered row.
C3_SelectStrict ==
  (pc = "done" /\ query.agg = <<>> /\ query.select # <<>>) =>
    /\ raised = ""
    /\ Missing(query.select) => result = <<>>
    /\ ~Missing(query.select) =>
         /\ Len(result) = Len(filtered.rows)
         /\ \A i \in 1..Len(result) :
              /\ Keys(result[i]) = query.select
              /\ \E k \in 1..Len(filtered.rows) :
                   \A j \in 1..Len(query.select) :
                     result[i][j][2] = filtered.rows[k][query.select[j]]

\* Both cases: a projection on two columns in the order opposite to the
\* table's, and a missing column dropping a result of two rows.
C3_Witness ==
  /\ pc = "done"
  /\ \/ /\ query.select = <<"Earnings", "Platform">>
        /\ Len(result) = 2
     \/ /\ query.select = <<"Platform", "Nope">>
        /\ Len(filtered.rows) = 2
        /\ query.sort_by = "Platform"
        /\ result = <<>>

\* ------------------------------------------------------------------- C5
\* Queries with sort_by, over every shape of result: all columns, a
\* projection, one row of aggregates, one row per group.
SortShapes ==
  {NoQuery}
    \cup {[NoQuery EXCEPT !.select = s] :
            s \in {<<"Platform">>, <<"Earnings">>, <<"Earnings", "Platform">>}}
    \cup {[NoQuery EXCEPT !.agg = <<[col |-> "Earnings", funcs |-> <<"sum">>]>>]}
    \cup {[NoQuery EXCEPT !.group_by = g,
                          !.agg = <<[col |-> "Earnings", funcs |-> <<"sum", "mean">>]>>] :
            g \in {<<"Platform">>, <<"Earnings">>}}

SortQueries ==
  {[s EXCEPT !.where = w, !.sort_by = sb, !.sort_desc = sd] :
     s \in SortShapes, w \in SmallWheres,
     sb \in ColumnNames \cup {"Earnings_sum", "Earnings_mean"}, sd \in BOOLEAN}

InitSort == Ready(Tables, SortQueries)

SpecSort == InitSort /\ [][Next]_vars

\* x <= y on returned values, in the total order that places a missing
\* value above every other value (the order of the ascending sort).
Leq(x, y) ==
  \/ y.k = "null"
  \/ x.k # "null" /\ y.k # "null" /\ ~ValLt(y, x)

IsPermutation(s, t) ==
  /\ Len(s) = Len(t)
  /\ \E p \in RowOrders(Len(t)) : s = [i \in 1..Len(t) |-> t[p[i]]]

\* The call reached the sort stage with sort_by a column of result_df.
Sorts == pc = "done" /\ raised = "" /\ path # "missing"
           /\ query.sort_by \in SeqToSet(staged.columns)

SkipsSort == pc = "done" /\ raised = "" /\ path # "missing"
               /\ query.sort_by \notin SeqToSet(staged.columns)

\* C5 as stated: the returned rows are non-decreasing in sort_by (non-
\* increasing with sort_desc) and a permutation of the rows of the stage
\* before; with sort_by not in the result shape the order is kept.
C5_SortedAsStated ==
  /\ Sorts =>
       /\ IsPermutation(result, ToDictRecords(staged))
       /\ \A i \in 1..(Len(result) - 1) :
            LET x == Get(result[i], query.sort_by)
                y == Get(result[i + 1], query.sort_by)
            IN IF query.sort_desc THEN Leq(y, x) ELSE Leq(x, y)
  /\ SkipsSort => result = ToDictRecords(staged)

\* C5, amended: the rows whose sort_by value is not missing are non-decreasing
\* (non-increasing with sort_desc), the rows whose value is missing come after
\* all of them in both directions, and the returned rows are a permutation of
\* the rows of the stage before; with sort_by not in the result shape the
\* order is kept.
C5_SortedNullsLast ==
  /\ Sorts =>
       /\ IsPermutation(result, ToDictRecords(staged))
       /\ \A i, j \in 1..Len(result) :
            i < j =>
              LET x == Get(result[i], query.sort_by)
                  y == Get(result[j], query.sort_by)
              IN /\ x.k = "null" => y.k = "null"
                 /\ (x.k # "null" /\ y.k # "null") =>
                      IF query.sort_desc THEN Leq(y, x) ELSE Leq(x, y)
  /\ SkipsSort => result = ToDictRecords(staged)

\* A descending sort that moved a row with a missing value behind another.
C5_Witness ==
  /\ Sorts
  /\ query.sort_desc
  /\ Len(result) = 2
  /\ result # ToDictRecords(staged)
  /\ Get(result[2], query.sort_by).k = "null"

\* ----------------------------------------------------- C4, C6, C7, C8
\* Function lists: each supported function, an unsupported one, and mixes.
\* A single function name given as a string is the list of that one name.
FuncLists ==
  {<<f>> : f \in SupportedFunctions \cup {"median"}}
    \cup {<<"sum", "median">>, <<"median", "count">>, <<"mean", "std">>,
          <<"sum", "sum">>}

\* Aggregations of the numeric column and of an unknown column; of the
\* string column only its count (the other functions are not defined on
\* strings alike in all pandas versions).
AggMappings ==
  {<<[col |-> "Earnings", funcs |-> fl]>> : fl \in FuncLists}
    \cup {<<[col |-> "Nope", funcs |-> <<"sum">>]>>,
          <<[col |-> "Platform", funcs |-> <<"count">>]>>}
    \cup {<<[col |-> "Nope", funcs |-> <<"sum">>], [col |-> "Earnings", funcs |-> fl]>> :
            fl \in {<<"sum">>, <<"median">>, <<"max", "min">>}}
    \cup {<<[col |-> "Earnings", funcs |-> fl], [col |-> "Nope", funcs |-> <<"sum">>]>> :
            fl \in {<<"sum">>, <<"median">>, <<"max", "min">>}}

GroupLists ==
  {<<>>, <<"Platform">>, <<"Earnings">>, <<"Platform", "Earnings">>,
   <<"Nope">>, <<"Platform", "Nope">>}

AggQueries ==
  {[NoQuery EXCEPT !.where = w, !.group_by = g, !.agg = a, !.sort_by = sb] :
     w \in SmallWheres, g \in GroupLists, a \in AggMappings,
     sb \in {"", "Earnings_sum", "Nope"}}

InitAgg == Ready(Tables, AggQueries)

SpecAgg == InitAgg /\ [][Next]_vars

Known(col) == col \in SeqToSet(TableColumns)

\* C4: with group_by = [g] and agg = {c: "sum"}, g and c columns of the
\* table, there is one output row per distinct value of g among the filtered
\* rows, a missing value included; the row carries its value of g, and its
\* c_sum is the sum of c over the filtered rows with that value of g.
C4_GroupSum ==
  (/\ pc = "done"
   /\ Len(query.group_by) = 1 /\ Known(query.group_by[1])
   /\ Len(query.agg) = 1 /\ Known(query.agg[1].col)
   /\ query.agg[1].funcs = <<"sum">>) =>
    LET g == query.group_by[1]
        c == query.agg[1].col
        rows == filtered.rows
    IN /\ raised = ""
       /\ Len(result) = Cardinality({rows[i][g] : i \in 1..Len(rows)})
       /\ \A i, j \in 1..Len(result) :
            i # j => Get(result[i], g) # Get(result[j], g)
       /\ \A i \in 1..Len(result) :
            /\ HasKey(result[i], g)
            /\ Get(result[i], FieldName(c, "sum")) =
                 Num(SumV(DropNa(ColumnOf(
                   SelectSeq(rows, LAMBDA r : r[g] = Get(result[i], g)), c))))

\* The names an aggregate field can have: such a sort_by names no column of
\* the table, and is not an unknown column either.
AggregateNames ==
  {FieldName(c, f) : c \in SeqToSet(TableColumns), f \in SupportedFunctions}

\* The query without its clauses on columns the table lacks.
WithoutUnknown(q) ==
  [q EXCEPT !.where = SelectSeq(@, LAMBDA e : Known(e.col)),
            !.agg = SelectSeq(@, LAMBDA e : Known(e.col)),
            !.group_by = SelectSeq(@, LAMBDA c : Known(c)),
            !.sort_by = IF Known(@) \/ @ \in AggregateNames THEN @ ELSE ""]

MentionsUnknown(q) == WithoutUnknown(q) # q

\* C6: a column the table lacks, named in where, agg, sort_by or group_by,
\* is ignored: the call raises nothing and returns what the query without
\* the clause on that column returns.
C6_UnknownColumnIgnored ==
  (pc = "done" /\ MentionsUnknown(query)) =>
    /\ raised = ""
    /\ \E o \in query_csv_data(table, WithoutUnknown(query)) : o.result = result

\* The fields "{column}_{function}" that agg asks for and that exist: the
\* column is in the table and the function is supported.
RequestedFields(agg) ==
  UNION {{[name |-> FieldName(agg[i].col, agg[i].funcs[j]),
           col |-> agg[i].col, func |-> agg[i].funcs[j]] :
            j \in {j \in 1..Len(agg[i].funcs) :
                     agg[i].funcs[j] \in SupportedFunctions}} :
           i \in {i \in 1..Len(agg) : Known(agg[i].col)}}

\* C7: with agg and no group_by the result is exactly one row; its keys are
\* the aggregate fields only, each computed over the whole filtered table.
C7_SimpleAggOneRow ==
  (pc = "done" /\ query.agg # <<>> /\ query.group_by = <<>>) =>
    /\ raised = ""
    /\ Len(result) = 1
    /\ SeqToSet(Keys(result[1])) = {f.name : f \in RequestedFields(query.agg)}
    /\ \A f \in RequestedFields(query.agg) :
         Get(result[1], f.name) = Aggregate(f.func, ColumnOf(filtered.rows, f.col))

\* The distinct group-key tuples without a missing value (those with one are
\* the subject of C4).
KeyTuples(rows, group_by) ==
  {k \in {KeyOf(rows[i], group_by) : i \in 1..Len(rows)} : ~HasNullKey(k)}

HasUnsupported(agg) ==
  \E i \in 1..Len(agg) :
    \E j \in 1..Len(agg[i].funcs) : agg[i].funcs[j] \notin SupportedFunctions

\* C8: in a grouped query an unsupported function name removes only its own
\* field: nothing is raised, no row has the field, and there is still one
\* row per distinct group-key tuple, with the group-key columns and every
\* other requested field.
C8_UnsupportedFunctionOmitted ==
  (/\ pc = "done"
   /\ query.group_by # <<>> /\ query.agg # <<>>
   /\ \A j \in 1..Len(query.group_by) : Known(query.group_by[j])
   /\ HasUnsupported(query.agg)) =>
    /\ raised = ""
    /\ Len(result) = Cardinality(KeyTuples(filtered.rows, query.group_by))
    /\ \A i \in 1..Len(result) :
         SeqToSet(Keys(result[i])) =
           SeqToSet(query.group_by) \cup {f.name : f \in RequestedFields(query.agg)}

\* ------------------------------------------------------------------ C10
MaxDistinct == 52
MaxReps == 2

\* A table whose string column has n distinct values, each reps times, in
\* decreasing order, with or without missing cells around them.
SchemaTable(n, reps, nulls) ==
  LET base == [i \in 1..(n * reps) |->
                 [Platform |-> Str(n - ((i - 1) % n)),
                  Earnings |-> Num(((i - 1) % MaxVal) + 1)]]
  IN IF nulls
     THEN <<[Platform |-> Null, Earnings |-> Null]>> \o base
            \o <<[Platform |-> Null, Earnings |-> Num(1)]>>
     ELSE base

SchemaTables ==
  Tables \cup {SchemaTable(n, reps, nulls) :
                 n \in 1..MaxDistinct, reps \in 1..MaxReps, nulls \in BOOLEAN}

InitSchema == Ready(SchemaTables, {NoQuery})

\* One call of get_csv_schema.
GetCsvSchema ==
  /\ pc = "ready"
  /\ schema' \in get_csv_schema(table)
  /\ pc' = "done"
  /\ UNCHANGED <<table, query, path, raised, filtered, staged, result, warnings,
                 waitVars, mainVars>>

NextSchema == GetCsvSchema

SpecSchema == InitSchema /\ [][NextSchema]_vars

\* The distinct values of a column of the table, missing cells apart.
DistinctValues(col) == {table[i][col] : i \in 1..Len(table)} \ {Null}

\* vals are the first Len(vals) distinct values of the column, in order of
\* first appearance: each is the value of the first cell that is neither
\* missing nor one of the values before it.
FirstDistinct(vals, col) ==
  \A j \in 1..Len(vals) :
    \E i \in 1..Len(table) :
      /\ table[i][col] = vals[j]
      /\ vals[j] # Null
      /\ vals[j] \notin {vals[m] : m \in 1..(j - 1)}
      /\ \A h \in 1..(i - 1) :
           table[h][col] \in {Null} \cup {vals[m] : m \in 1..(j - 1)}

\* C10: for a string column with n distinct non-missing values the schema
\* holds, when n <= 50, unique_values with exactly these values and neither
\* unique_count nor sample_values; when n > 50, unique_count = n and
\* sample_values with the first 10 distinct values, and no unique_values.
C10_SchemaShapes ==
  pc = "done" =>
    \A j \in 1..Len(schema) :
      LET col == schema[j][1]
          info == schema[j][2]
          n == Cardinality(DistinctValues(col))
      IN Get(info, "type") = "object" =>
           /\ n <= 50 =>
                /\ Keys(info) = <<"type", "unique_values">>
                /\ Len(Get(info, "unique_values")) = n
                /\ SeqToSet(Get(info, "unique_values")) = DistinctValues(col)
           /\ n > 50 =>
                /\ Keys(info) = <<"type", "unique_count", "sample_values">>
                /\ Get(info, "unique_count") = n
                /\ Len(Get(info, "sample_values")) = 10
                /\ FirstDistinct(Get(info, "sample_values"), col)

\* The boundary: 50 distinct values among missing cells and repetitions.
C10_Witness ==
  /\ pc = "done"
  /\ Len(schema) = 2
  /\ Cardinality(DistinctValues("Platform")) = 50
  /\ Len(table) > 100
  /\ table[1]["Platform"] = Null
  /\ HasKey(schema[1][2], "unique_values")

\* ------------------------------------------------------------------ C11
\* wait_for_ollama_connection(max_retries, delay).
DefaultMaxRetries == 30
DefaultDelay == 2
MaxRetries == 3
MaxDelay == 1

RetryCounts == (0..MaxRetries) \cup {DefaultMaxRetries}
Delays == (0..MaxDelay) \cup {DefaultDelay}

queryVars ==
  <<table, query, pc, path, raised, filtered, staged, result, warnings, schema>>

InitWait ==
  /\ table = <<>>
  /\ query = NoQuery
  /\ pc = "idle"
  /\ path = ""
  /\ raised = ""
  /\ filtered = read_csv(<<>>)
  /\ staged = read_csv(<<>>)
  /\ result = <<>>
  /\ warnings = <<>>
  /\ schema = <<>>
  /\ max_retries \in RetryCounts
  /\ delay \in Delays
  /\ attempt = 0
  /\ wait_pc = "loop"
  /\ attempts = <<>>
  /\ slept = <<>>
  /\ returned = "none"
  /\ MainIdle

\* Mutant of the loop test below: one attempt too many.
InRangeInclusive(i, n) == i <= n

\* for attempt in range(max_retries): the loop has a next value.
InRange(i, n) == i < n

\* try: ollama_list(); return True -- the endpoint answers or fails.
WaitTry ==
  /\ wait_pc = "loop"
  /\ InRange(attempt, max_retries)
  /\ \E ok \in BOOLEAN :
       /\ attempts' = Append(attempts, ok)
       /\ IF ok
          THEN wait_pc' = "returned" /\ returned' = "True"
          ELSE wait_pc' = "except" /\ returned' = returned
  /\ UNCHANGED <<queryVars, mainVars, max_retries, delay, attempt, slept>>

\* except Exception: time.sleep(delay), and the next round of the loop.
WaitSleep ==
  /\ wait_pc = "except"
  /\ slept' = Append(slept, delay)
  /\ attempt' = attempt + 1
  /\ wait_pc' = "loop"
  /\ UNCHANGED <<queryVars, mainVars, max_retries, delay, attempts, returned>>

\* The loop is exhausted: return False.
WaitExhausted ==
  /\ wait_pc = "loop"
  /\ ~InRange(attempt, max_retries)
  /\ wait_pc' = "returned"
  /\ returned' = "False"
  /\ UNCHANGED <<queryVars, mainVars, max_retries, delay, attempt, attempts, slept>>

NextWait == WaitTry \/ WaitSleep \/ WaitExhausted

\* Every call of ollama_list() and of time.sleep returns, so the function
\* keeps taking steps until it returns.
SpecWait == InitWait /\ [][NextWait]_vars /\ WF_vars(NextWait)

Failures(outcomes) == Cardinality({i \in 1..Len(outcomes) : ~outcomes[i]})

\* What holds at every point of a call.
RetryBounded ==
  /\ Len(attempts) <= max_retries
  /\ \A i \in 1..(Len(attempts) - 1) : ~attempts[i]
  /\ (\E i \in 1..Len(attempts) : attempts[i]) <=> returned = "True"
  /\ returned = "False" <=>
       (wait_pc = "returned" /\ Len(attempts) = max_retries
          /\ \A i \in 1..Len(attempts) : ~attempts[i])
  /\ \A i \in 1..Len(slept) : slept[i] = delay
  /\ Len(slept) =
       IF wait_pc = "except" THEN Failures(attempts) - 1 ELSE Failures(attempts)
  /\ wait_pc = "returned" <=> returned # "none"

\* C11: wait_for_ollama_connection makes at most max_retries attempts, none
\* after a success, returns True at the first success and False exactly when
\* max_retries attempts all failed, sleeps delay after each failed attempt,
\* and always returns.
C11_BoundedRetry == [](RetryBounded) /\ <>(wait_pc = "returned")

\* Two failures, each followed by its sleep, then a success that ends the
\* call before the attempts are used up.
C11_Witness ==
  /\ returned = "True"
  /\ attempts = <<FALSE, FALSE, TRUE>>
  /\ slept = <<DefaultDelay, DefaultDelay>>
  /\ max_retries > 3

\* ------------------------------------------------------------------ C12
\* main: the prompt, the first chat, the tool calls, the follow-up chat.
MaxCalls == 2

\* Arguments the model may send with a tool call.
MainQueries ==
  {NoQuery,
   [NoQuery EXCEPT !.select = <<"Platform">>],
   [NoQuery EXCEPT !.sort_by = "Earnings", !.sort_desc = TRUE],
   [NoQuery EXCEPT !.group_by = <<"Platform">>,
                   !.agg = <<[col |-> "Earnings", funcs |-> <<"sum">>]>>],
   [NoQuery EXCEPT !.group_by = <<"Nope">>,
                   !.agg = <<[col |-> "Earnings", funcs |-> <<"sum">>]>>]}

\* tool_call.function.arguments: None (the empty sequence) or one mapping.
Arguments == {<<>>} \cup {<<q>> : q \in MainQueries}

ToolCalls == [name : {"query_csv_data", "get_weather"}, arguments : Arguments]

ToolCallLists == UNION {[1..n -> ToolCalls] : n \in 0..MaxCalls}

\* tool_call.function.arguments or {}
FuncArgs(arguments) == IF arguments = <<>> THEN NoQuery ELSE arguments[1]

\* json.dumps of one cell: a missing value is written NaN.
JsonValue(c) ==
  IF c.k = "null" THEN <<"NaN">>
  ELSE IF c.k = "str" THEN <<"string", c.v>>
  ELSE <<"number", c.k, c.v, c.d>>

\* json.dumps(tool_output): None is written null, a list of rows as an array
\* of objects.
JsonNull == <<"null">>

JsonArray(rows) ==
  <<"array",
    [i \in 1..Len(rows) |->
       [j \in 1..Len(rows[i]) |-> <<rows[i][j][1], JsonValue(rows[i][j][2])>>]]>>

SystemMessage(sch, total_rows) ==
  [role |-> "system", content |-> <<"prompt", sch, total_rows>>,
   name |-> "", arguments |-> NoQuery]

UserMessage ==
  [role |-> "user", content |-> <<"question">>, name |-> "", arguments |-> NoQuery]

AssistantMessage(func_name, func_args) ==
  [role |-> "assistant", content |-> <<"None">>, name |-> func_name,
   arguments |-> func_args]

ToolMessage(func_name, dumped) ==
  [role |-> "tool", content |-> dumped, name |-> func_name, arguments |-> NoQuery]

\* chat(model, messages, tools): what the request carries.
ChatRequest(msgs, with_tools) == [messages |-> msgs, tools |-> with_tools]

InitMain ==
  /\ table \in Tables
  /\ query = NoQuery
  /\ pc = "idle"
  /\ path = ""
  /\ raised = ""
  /\ filtered = read_csv(<<>>)
  /\ staged = read_csv(<<>>)
  /\ result = <<>>
  /\ warnings = <<>>
  /\ schema = <<>>
  /\ WaitIdle
  /\ main_pc = "start"
  /\ messages = <<>>
  /\ tool_calls = <<>>
  /\ next_call = 0
  /\ chats = <<>>
  /\ executed = <<>>

callVars == <<query, pc, path, raised, filtered, staged, result, warnings>>

\* schema = get_csv_schema(); total_rows; messages = [system, user]
MainPrompt ==
  /\ main_pc = "start"
  /\ \E sch \in get_csv_schema(table) :
       /\ schema' = sch
       /\ messages' = <<SystemMessage(sch, Len(table)), UserMessage>>
  /\ main_pc' = "chat"
  /\ UNCHANGED <<table, callVars, waitVars, tool_calls, next_call, chats, executed>>

\* response = chat(model, messages, tools=[query_csv_data_tool]): the model
\* answers with any list of tool calls.
MainFirstChat ==
  /\ main_pc = "chat"
  /\ chats' = Append(chats, ChatRequest(messages, TRUE))
  /\ \E tcs \in ToolCallLists : tool_calls' = tcs
  /\ next_call' = 1
  /\ main_pc' = "calls"
  /\ UNCHANGED <<table, callVars, schema, waitVars, messages, executed>>

\* if not response.message.tool_calls: return
MainNoToolCalls ==
  /\ main_pc = "calls"
  /\ tool_calls = <<>>
  /\ main_pc' = "done"
  /\ UNCHANGED <<table, callVars, schema, waitVars, messages, tool_calls,
                 next_call, chats, executed>>


\* One round of the loop for a call of query_csv_data: the executor runs on
\* func_args; its exception leaves main, its result is appended as an
\* assistant message and a tool message.
MainCallExecutor ==
  /\ main_pc = "calls"
  /\ next_call \in 1..Len(tool_calls)
  /\ tool_calls[next_call].name = "query_csv_data"
  /\ LET func_name == tool_calls[next_call].name
         func_args == FuncArgs(tool_calls[next_call].arguments)
     IN /\ executed' = Append(executed, func_args)
        /\ query' = func_args
        /\ pc' = "done"
        /\ \E o \in query_csv_data(table, func_args) :
             /\ path' = o.path
             /\ raised' = o.raised
             /\ filtered' = o.filtered
             /\ staged' = o.staged
             /\ result' = o.result
             /\ warnings' = o.warnings
             /\ IF o.raised # ""
                THEN /\ main_pc' = "raised"
                     /\ UNCHANGED <<messages, next_call>>
                ELSE /\ messages' = messages \o
                          <<AssistantMessage(func_name, func_args),
                            ToolMessage(func_name, JsonArray(o.result))>>
                     /\ next_call' = next_call + 1
                     /\ main_pc' = "calls"
  /\ UNCHANGED <<table, schema, waitVars, tool_calls, chats>>

\* One round of the loop for any other function name: tool_output = None.
MainUnknownFunction ==
  /\ main_pc = "calls"
  /\ next_call \in 1..Len(tool_calls)
  /\ tool_calls[next_call].name # "query_csv_data"
  /\ LET func_name == tool_calls[next_call].name
         func_args == FuncArgs(tool_calls[next_call].arguments)
     IN messages' = messages \o
          <<AssistantMessage(func_name, func_args),
            ToolMessage(func_name, JsonNull)>>
  /\ next_call' = next_call + 1
  /\ UNCHANGED <<table, callVars, schema, waitVars, main_pc, tool_calls, chats,
                 executed>>

\* final_response = chat(model, messages), after the loop.
MainFollowUp ==
  /\ main_pc = "calls"
  /\ tool_calls # <<>>
  /\ next_call > Len(tool_calls)
  /\ chats' = Append(chats, ChatRequest(messages, FALSE))
  /\ main_pc' = "done"
  /\ UNCHANGED <<table, callVars, schema, waitVars, messages, tool_calls,
                 next_call, executed>>

NextMain ==
  \/ MainPrompt
  \/ MainFirstChat
  \/ MainNoToolCalls
  \/ MainCallExecutor
  \/ MainUnknownFunction
  \/ MainFollowUp

SpecMain == InitMain /\ [][NextMain]_vars

\* The arguments of the executor calls a list of tool calls asks for.
ExecutorCalls(tcs) ==
  LET known == SelectSeq(tcs, LAMBDA tc : tc.name = "query_csv_data")
  IN [i \in 1..Len(known) |-> FuncArgs(known[i].arguments)]

\* The results json.dumps may have written for a tool call.
DumpedResults(tc) ==
  IF tc.name = "query_csv_data"
  THEN {JsonArray(o.result) :
          o \in {x \in query_csv_data(table, FuncArgs(tc.arguments)) : x.raised = ""}}
  ELSE {JsonNull}

\* messages holds the (assistant, tool) pair of the i-th tool call.
PairAt(i) ==
  LET tc == tool_calls[i]
  IN /\ Len(messages) >= 2 + 2 * i
     /\ messages[2 * i + 1] = AssistantMessage(tc.name, FuncArgs(tc.arguments))
     /\ messages[2 * i + 2].role = "tool"
     /\ messages[2 * i + 2].name = tc.name
     /\ messages[2 * i + 2].content \in DumpedResults(tc)

Prompted ==
  /\ Len(messages) >= 2
  /\ messages[1] = SystemMessage(schema, Len(table))
  /\ messages[2] = UserMessage

\* C12: when main ends after a first response without tool calls, the
\* executor was never called and the first chat is the only one; when it
\* ends after a first response with tool calls, the messages are system,
\* user, then one (assistant, tool) pair per tool call in order, the tool
\* message carrying the call's result (null for a function other than
\* query_csv_data, which does not reach the executor), and exactly one
\* follow-up chat was sent, with that message list; while tool calls are
\* being processed no follow-up chat has been sent.
C12_OrchestrationOrder ==
  /\ main_pc = "calls" =>
       /\ Len(chats) = 1
       /\ Prompted
       /\ Len(messages) = 2 + 2 * (next_call - 1)
       /\ \A i \in 1..(next_call - 1) : PairAt(i)
       /\ executed = ExecutorCalls(SubSeq(tool_calls, 1, next_call - 1))
  /\ main_pc \in {"done", "raised"} =>
       /\ Prompted
       /\ chats[1] = ChatRequest(<<messages[1], messages[2]>>, TRUE)
       /\ IF tool_calls = <<>>
          THEN /\ executed = <<>>
               /\ Len(chats) = 1
               /\ Len(messages) = 2
          ELSE /\ Len(messages) = 2 + 2 * Len(tool_calls)
               /\ \A i \in 1..Len(tool_calls) : PairAt(i)
               /\ executed = ExecutorCalls(tool_calls)
               /\ Len(chats) = 2
               /\ chats[2] = ChatRequest(messages, FALSE)

====
